---- MODULE Spec2Model ----
(***************************************************************************)
(* Model of bot.py: the rule table GRAMMAR_RULES, the regular-expression   *)
(* operations check_grammar uses (re.search and re.sub with re.IGNORECASE) *)
(* and the rule loop of GrammarChecker.check_grammar, run by callers that  *)
(* share the one grammar_checker instance.                                 *)
(*                                                                         *)
(* Text is a TLA+ string; a character is a string of length one.           *)
(***************************************************************************)
EXTENDS Integers, Sequences, FiniteSets, TLC

VARIABLES
    rules,        \* grammar_checker.rules, the list GRAMMAR_RULES (shared)
    pc,           \* per caller: "idle", "loop" (inside the for loop), "done"
    input,        \* per caller: the argument of check_grammar (original_text)
    text,         \* per caller: the local variable text
    corrections,  \* per caller: the local list corrections
    idx,          \* per caller: position of the for loop in self.rules
    raised,       \* per caller: indices of the rules whose try block raised
    visited,      \* per caller: indices of the rules the loop has taken, in order
    run,          \* per caller: 1 for a call on a message, 2 for a call on its own result
    first         \* per caller: the message of run 1

vars == <<rules, pc, input, text, corrections, idx, raised, visited, run, first>>

-----------------------------------------------------------------------------
(* Characters                                                              *)

UpperChars == "ABCDEFGHIJKLMNOPQRSTUVWXYZ"

LowerChars == "abcdefghijklmnopqrstuvwxyz"

DigitChars == "0123456789_"

Ch(s, i) == SubSeq(s, i, i)

CharsOf(s) == {Ch(s, i) : i \in 1..Len(s)}

\* str.lower() of the upper-case letters
LowerOf ==
    [c \in CharsOf(UpperChars) |->
        Ch(LowerChars, CHOOSE i \in 1..Len(UpperChars) : Ch(UpperChars, i) = c)]

\* str.lower() of one character, as re.IGNORECASE folds it
Lower(c) == IF c \in DOMAIN LowerOf THEN LowerOf[c] ELSE c

WordChars == CharsOf(UpperChars) \cup CharsOf(LowerChars) \cup CharsOf(DigitChars)

\* \w of the re module
IsWordChar(c) == c \in WordChars

\* \b at the gap before position pos (1-based) of t
\* (variant: the pattern written without its \b)
AtBoundaryIgnored(t, pos) == TRUE

AtBoundary(t, pos) ==
    LET before == pos > 1 /\ IsWordChar(Ch(t, pos - 1))
        after  == pos <= Len(t) /\ IsWordChar(Ch(t, pos))
    IN  before # after

\* a literal of the pattern matched at pos, ignoring case
LitAt(lit, t, pos) ==
    /\ pos + Len(lit) - 1 <= Len(t)
    /\ \A k \in 1..Len(lit) : Lower(Ch(t, pos + k - 1)) = Lower(Ch(lit, k))

-----------------------------------------------------------------------------
(* Patterns: a sequence of parts, each \b, a literal or a capturing group  *)
(* of alternatives, tried in the order written.                            *)

B == [kind |-> "b"]

Lit(s) == [kind |-> "lit", s |-> s]

Grp(alts) == [kind |-> "grp", alts |-> alts]

Ref(n) == [kind |-> "ref", n |-> n]

NoMatch == [ok |-> FALSE]

RECURSIVE MatchParts(_, _, _, _, _)
RECURSIVE MatchAlts(_, _, _, _, _, _)

\* the backtracking matcher: parts k.. of the pattern against t from pos,
\* with the groups captured so far; the first success in alternative order
MatchParts(parts, k, t, pos, groups) ==
    IF k > Len(parts) THEN [ok |-> TRUE, end |-> pos, groups |-> groups]
    ELSE LET part == parts[k] IN
         CASE part.kind = "b" ->
                IF AtBoundary(t, pos) THEN MatchParts(parts, k + 1, t, pos, groups)
                ELSE NoMatch
           [] part.kind = "lit" ->
                IF LitAt(part.s, t, pos)
                THEN MatchParts(parts, k + 1, t, pos + Len(part.s), groups)
                ELSE NoMatch
           [] part.kind = "grp" -> MatchAlts(parts, k, 1, t, pos, groups)

MatchAlts(parts, k, a, t, pos, groups) ==
    IF a > Len(parts[k].alts) THEN NoMatch
    ELSE LET alt == parts[k].alts[a]
             rest == IF LitAt(alt, t, pos)
                     THEN MatchParts(parts, k + 1, t, pos + Len(alt),
                                     Append(groups, SubSeq(t, pos, pos + Len(alt) - 1)))
                     ELSE NoMatch
         IN  IF rest.ok THEN rest ELSE MatchAlts(parts, k, a + 1, t, pos, groups)

MatchAt(pattern, t, pos) == MatchParts(pattern, 1, t, pos, <<>>)

\* re.search(pattern, text, re.IGNORECASE) is not None
Search(pattern, t) == \E pos \in 1..(Len(t) + 1) : MatchAt(pattern, t, pos).ok

RECURSIVE Expand(_, _, _)
\* the replacement template with \1, \2 filled from the match's groups
Expand(template, k, groups) ==
    IF k > Len(template) THEN ""
    ELSE (IF template[k].kind = "ref" THEN groups[template[k].n] ELSE template[k].s)
         \o Expand(template, k + 1, groups)

RECURSIVE SubFrom(_, _, _, _)
\* re.sub from position pos on: every non-overlapping match, left to right
SubFrom(pattern, template, t, pos) ==
    IF pos > Len(t) THEN ""
    ELSE LET m == MatchAt(pattern, t, pos) IN
         IF m.ok /\ m.end > pos
         THEN Expand(template, 1, m.groups) \o SubFrom(pattern, template, t, m.end)
         ELSE Ch(t, pos) \o SubFrom(pattern, template, t, pos + 1)

\* re.sub(pattern, correction, text, flags=re.IGNORECASE)
Sub(pattern, template, t) == SubFrom(pattern, template, t, 1)

-----------------------------------------------------------------------------
(* The rule table.  Explanations and examples are carried without their    *)
(* pictographs.                                                            *)

GRAMMAR_RULES == <<
    [category    |-> "Subject-Verb Agreement",
     pattern     |-> <<B, Lit("I "), Grp(<<"goes", "eats", "plays", "reads", "writes">>), B>>,
     correction  |-> <<Lit("I go")>>,
     explanation |-> "\"I\" always takes base form verb! Use \"I go\"",
     examples    |-> <<"I goes to school", "I go to school">>],
    [category    |-> "Subject-Verb Agreement",
     pattern     |-> <<B, Grp(<<"He", "She", "It">>), Lit(" "),
                       Grp(<<"go", "eat", "play", "read", "write">>), B>>,
     correction  |-> <<Ref(1), Lit(" "), Ref(2), Lit("s")>>,
     explanation |-> "He/She/It requires verb + \"s\"!",
     examples    |-> <<"He play football", "He plays football">>],
    [category    |-> "Tense Consistency",
     pattern     |-> <<B, Grp(<<"I am", "You are", "He is", "She is", "It is",
                             "We are", "They are">>), Lit(" "),
                       Grp(<<"go", "eat", "play">>), B>>,
     correction  |-> <<Ref(1), Lit(" "), Ref(2), Lit("ing")>>,
     explanation |-> "Present continuous requires verb + \"ing\"!",
     examples    |-> <<"I am go to school", "I am going to school">>],
    [category    |-> "Verb Forms",
     pattern     |-> <<B, Grp(<<"I", "You", "We", "They">>), Lit(" "), Grp(<<"was">>), B>>,
     correction  |-> <<Ref(1), Lit(" were")>>,
     explanation |-> "I/You/We/They use \"were\" in past tense!",
     examples    |-> <<"They was happy", "They were happy">>],
    [category    |-> "Auxiliary Verbs",
     pattern     |-> <<B, Lit("do "), Grp(<<"he", "she", "it">>), B>>,
     correction  |-> <<Lit("does "), Ref(1)>>,
     explanation |-> "He/She/It uses \"does\" as auxiliary!",
     examples    |-> <<"Do she like music?", "Does she like music?">>]
>>

\* (variant: the category and the explanation written to each other's key)
CorrectionMislabelled(rule) ==
    [category |-> rule.explanation, explanation |-> rule.category,
     examples |-> rule.examples]

\* the dict check_grammar appends for a rule that changed the text
Correction(rule) ==
    [category |-> rule.category, explanation |-> rule.explanation,
     examples |-> rule.examples]

\* (variant: neither if guards the substitution and the append)
TryRuleUnguarded(rule, t, cs) ==
    [text |-> Sub(rule.pattern, rule.correction, t),
     corrections |-> Append(cs, Correction(rule))]

\* (variant: the assignment text = corrected is missing)
TryRuleKeepsText(rule, t, cs) ==
    IF Search(rule.pattern, t)
    THEN LET corrected == Sub(rule.pattern, rule.correction, t) IN
         IF corrected # t
         THEN [text |-> t, corrections |-> Append(cs, Correction(rule))]
         ELSE [text |-> t, corrections |-> cs]
    ELSE [text |-> t, corrections |-> cs]

\* the body of the try block for one rule: the text and the corrections after it
TryRule(rule, t, cs) ==
    IF Search(rule.pattern, t)
    THEN LET corrected == Sub(rule.pattern, rule.correction, t) IN
         IF corrected # t
         THEN [text |-> corrected, corrections |-> Append(cs, Correction(rule))]
         ELSE [text |-> t, corrections |-> cs]
    ELSE [text |-> t, corrections |-> cs]

RECURSIVE CheckFrom(_, _, _, _)
\* check_grammar as a function: the rules from k on, applied in table order
CheckFrom(rs, k, t, cs) ==
    IF k > Len(rs) THEN [text |-> t, corrections |-> cs]
    ELSE LET r == TryRule(rs[k], t, cs) IN CheckFrom(rs, k + 1, r.text, r.corrections)

CheckGrammar(t) == CheckFrom(GRAMMAR_RULES, 1, t, <<>>)

-----------------------------------------------------------------------------
(* Callers and the messages they send                                      *)

Callers == {"a", "b"}

MaxWords == 3

Vocabulary == {"I", "he", "It", "is", "go", "goes", "eats", "was", "do"}

RECURSIVE TextsOf(_)
\* the texts of at most n words of the vocabulary, single spaces between
TextsOf(n) ==
    IF n = 0 THEN {""}
    ELSE LET S == TextsOf(n - 1) IN
         S \cup {IF s = "" THEN w ELSE s \o " " \o w : s \in S, w \in Vocabulary}

\* the sentences of the rule table's examples and of the handlers' help texts,
\* with variations of case, spacing and word boundaries
Sentences ==
    {"he go home", "He go home", "Do she like music?", "do she like music?",
     "I goes to school", "They was happy", "I am go to school",
     "She plays tennis", "He play football", "", " ", "   ",
     "I goes now", "I eats now", "I plays now", "I reads now", "I writes now",
     "i goes home", "she go he going it eat", "do it is go", "hi goes", "I  goes",
     "do he go", "do he I goes", "We are play, they was here. do IT read?", "I was. do she?",
     "xdo he", "do hers", "You are eat", "HE IS PLAY", "they WAS", "I goes I eats"}

Inputs == TextsOf(MaxWords) \cup Sentences

RaiseInputs == Sentences

SharedInputs ==
    {"he go home", "Do she like music?", "I eats now", "She plays tennis",
     "do it is go", "They was happy", ""}

-----------------------------------------------------------------------------
(* The program                                                             *)

Init ==
    /\ rules = GRAMMAR_RULES
    /\ pc = [p \in Callers |-> "idle"]
    /\ input = [p \in Callers |-> ""]
    /\ text = [p \in Callers |-> ""]
    /\ corrections = [p \in Callers |-> <<>>]
    /\ idx = [p \in Callers |-> 1]
    /\ raised = [p \in Callers |-> {}]
    /\ visited = [p \in Callers |-> <<>>]
    /\ run = [p \in Callers |-> 1]
    /\ first = [p \in Callers |-> ""]

\* entry of check_grammar(t): original_text = text, corrections = []
Enter(p, t, n) ==
    /\ pc' = [pc EXCEPT ![p] = "loop"]
    /\ input' = [input EXCEPT ![p] = t]
    /\ text' = [text EXCEPT ![p] = t]
    /\ corrections' = [corrections EXCEPT ![p] = <<>>]
    /\ idx' = [idx EXCEPT ![p] = 1]
    /\ raised' = [raised EXCEPT ![p] = {}]
    /\ visited' = [visited EXCEPT ![p] = <<>>]
    /\ run' = [run EXCEPT ![p] = n]
    /\ UNCHANGED rules

\* handle_message calls grammar_checker.check_grammar(user_text), user_text
\* one of the messages
Call(p, messages) ==
    /\ pc[p] = "idle"
    /\ \E t \in messages :
         /\ first' = [first EXCEPT ![p] = t]
         /\ Enter(p, t, 1)

\* (variant: every rule is applied to original_text, not to the current text)
ApplyRuleOnOriginal(p) ==
    /\ pc[p] = "loop"
    /\ idx[p] <= Len(rules)
    /\ LET r == TryRule(rules[idx[p]], input[p], corrections[p]) IN
         /\ text' = [text EXCEPT ![p] = IF r.text # input[p] THEN r.text ELSE @]
         /\ corrections' = [corrections EXCEPT ![p] = r.corrections]
    /\ visited' = [visited EXCEPT ![p] = Append(@, idx[p])]
    /\ idx' = [idx EXCEPT ![p] = @ + 1]
    /\ UNCHANGED <<rules, pc, input, raised, run, first>>

\* (variant: the loop takes its rule off the shared list, self.rules.pop(0))
ApplyRuleConsuming(p) ==
    /\ pc[p] = "loop"
    /\ idx[p] <= Len(rules)
    /\ LET r == TryRule(rules[1], text[p], corrections[p]) IN
         /\ text' = [text EXCEPT ![p] = r.text]
         /\ corrections' = [corrections EXCEPT ![p] = r.corrections]
    /\ rules' = Tail(rules)
    /\ visited' = [visited EXCEPT ![p] = Append(@, idx[p])]
    /\ idx' = [idx EXCEPT ![p] = @ + 1]
    /\ UNCHANGED <<pc, input, raised, run, first>>

\* one iteration of the for loop whose try block completes
ApplyRule(p) ==
    /\ pc[p] = "loop"
    /\ idx[p] <= Len(rules)
    /\ LET r == TryRule(rules[idx[p]], text[p], corrections[p]) IN
         /\ text' = [text EXCEPT ![p] = r.text]
         /\ corrections' = [corrections EXCEPT ![p] = r.corrections]
    /\ visited' = [visited EXCEPT ![p] = Append(@, idx[p])]
    /\ idx' = [idx EXCEPT ![p] = @ + 1]
    /\ UNCHANGED <<rules, pc, input, raised, run, first>>

\* (variant: the handler leaves the loop, break in place of continue)
RaiseRuleBreaks(p) ==
    /\ pc[p] = "loop"
    /\ idx[p] <= Len(rules)
    /\ raised' = [raised EXCEPT ![p] = @ \cup {idx[p]}]
    /\ visited' = [visited EXCEPT ![p] = Append(@, idx[p])]
    /\ idx' = [idx EXCEPT ![p] = Len(rules) + 1]
    /\ UNCHANGED <<rules, pc, input, text, corrections, run, first>>

\* one iteration whose re.search or re.sub raises: except ... continue
RaiseRule(p) ==
    /\ pc[p] = "loop"
    /\ idx[p] <= Len(rules)
    /\ raised' = [raised EXCEPT ![p] = @ \cup {idx[p]}]
    /\ visited' = [visited EXCEPT ![p] = Append(@, idx[p])]
    /\ idx' = [idx EXCEPT ![p] = @ + 1]
    /\ UNCHANGED <<rules, pc, input, text, corrections, run, first>>

\* the loop is exhausted: return text, corrections
Return(p) ==
    /\ pc[p] = "loop"
    /\ idx[p] > Len(rules)
    /\ pc' = [pc EXCEPT ![p] = "done"]
    /\ UNCHANGED <<rules, input, text, corrections, idx, raised, visited, run, first>>

\* check_grammar called again on the corrected text it returned
Recheck(p) ==
    /\ pc[p] = "done"
    /\ run[p] = 1
    /\ Enter(p, text[p], 2)
    /\ UNCHANGED first

\* the result is used and dropped with the call's locals; the caller waits
\* for the next message
Discard(p) ==
    /\ pc[p] = "done"
    /\ pc' = [pc EXCEPT ![p] = "idle"]
    /\ input' = [input EXCEPT ![p] = ""]
    /\ text' = [text EXCEPT ![p] = ""]
    /\ corrections' = [corrections EXCEPT ![p] = <<>>]
    /\ idx' = [idx EXCEPT ![p] = 1]
    /\ raised' = [raised EXCEPT ![p] = {}]
    /\ visited' = [visited EXCEPT ![p] = <<>>]
    /\ run' = [run EXCEPT ![p] = 1]
    /\ first' = [first EXCEPT ![p] = ""]
    /\ UNCHANGED rules

\* one caller, no rule raises
Next ==
    \/ Call("a", Inputs)
    \/ ApplyRule("a")
    \/ Return("a")
    \/ Recheck("a")
    \/ Discard("a")

Spec == Init /\ [][Next]_vars

\* one caller, any rule may raise
NextRaise ==
    \/ Call("a", RaiseInputs)
    \/ ApplyRule("a")
    \/ RaiseRule("a")
    \/ Return("a")
    \/ Discard("a")

SpecRaise == Init /\ [][NextRaise]_vars

\* the callers interleave on the shared instance
NextShared ==
    \/ \E p \in Callers : Call(p, SharedInputs)
    \/ \E p \in Callers : ApplyRule(p)
    \/ \E p \in Callers : Return(p)
    \/ \E p \in Callers : Discard(p)

SpecShared == Init /\ [][NextShared]_vars

-----------------------------------------------------------------------------
(* Properties of check_grammar                                             *)

\* caller "a" holds the result of a call on a message
Returned == pc["a"] = "done" /\ run["a"] = 1

\* the rules of the table whose pattern matches t
Matching(t) == {k \in 1..Len(GRAMMAR_RULES) : Search(GRAMMAR_RULES[k].pattern, t)}

\* rule k alone, substituted directly into t
Direct(k, t) == Sub(GRAMMAR_RULES[k].pattern, GRAMMAR_RULES[k].correction, t)

Categories(cs) == [i \in 1..Len(cs) |-> cs[i].category]

\* C1: check_grammar("he go home") returns "he goes home" and
\* check_grammar("He go home") returns "He goes home", the pronoun as typed.
C1_ThirdPersonCase ==
    Returned =>
        /\ input["a"] = "he go home" => text["a"] = "he goes home"
        /\ input["a"] = "He go home" => text["a"] = "He goes home"

\* C2: check_grammar("Do she like music?") returns "Does she like music?" with
\* exactly one correction, of category "Auxiliary Verbs".
C2_DoSheLikeMusic ==
    (Returned /\ input["a"] = "Do she like music?") =>
        /\ text["a"] = "Does she like music?"
        /\ Categories(corrections["a"]) = <<"Auxiliary Verbs">>

FirstPersonVerbs == <<"goes", "eats", "plays", "reads", "writes">>

BaseForms == <<"go", "eat", "play", "read", "write">>

\* C3: for every verb v of goes, eats, plays, reads, writes, "I v" is rewritten
\* to "I" and the base form of v, the rest of the text unchanged.
C3_FirstPersonBaseForm ==
    \A i \in 1..Len(FirstPersonVerbs) :
        (Returned /\ input["a"] = "I " \o FirstPersonVerbs[i] \o " now")
            => text["a"] = "I " \o BaseForms[i] \o " now"

\* C4: a text in which no rule's pattern matches, the empty and the
\* whitespace-only text included, is returned unchanged with no corrections.
C4_NoTriggerUnchanged ==
    (Returned /\ Matching(input["a"]) = {}) =>
        /\ text["a"] = input["a"]
        /\ corrections["a"] = <<>>

C4_Witness ==
    /\ Returned
    /\ Matching(input["a"]) = {}
    /\ input["a"] = "hi goes"
    /\ text["a"] = "hi goes"

\* C5: a text whose original form matches exactly one rule r is returned as
\* the direct substitution of r alone, with exactly one correction, of r's
\* category, and the text r produced matches no later rule.
C5_SingleRule ==
    \A k \in 1..Len(GRAMMAR_RULES) :
        (Returned /\ Matching(input["a"]) = {k}) =>
            /\ text["a"] = Direct(k, input["a"])
            /\ Categories(corrections["a"]) = <<GRAMMAR_RULES[k].category>>
            /\ \A j \in (k + 1)..Len(GRAMMAR_RULES) :
                   ~Search(GRAMMAR_RULES[j].pattern, Direct(k, input["a"]))

C5_Witness ==
    /\ Returned
    /\ Matching(input["a"]) = {3}
    /\ input["a"] = "It is go"
    /\ text["a"] = "It is going"
    /\ Len(corrections["a"]) = 1

\* C6: check_grammar on the corrected text of check_grammar(t) returns that
\* text again, and the text one rule produced no longer matches that rule.
C6_Idempotent ==
    /\ (pc["a"] = "done" /\ run["a"] = 2) =>
           /\ text["a"] = input["a"]
           /\ corrections["a"] = <<>>
    /\ Returned =>
           \A k \in Matching(input["a"]) :
               ~Search(GRAMMAR_RULES[k].pattern, Direct(k, input["a"]))

C6_Witness ==
    /\ pc["a"] = "done"
    /\ run["a"] = 2
    /\ first["a"] = "do he go"
    /\ input["a"] = "does he gos"
    /\ text["a"] = "does he gos"

RECURSIVE CheckSkipping(_, _, _, _, _)
\* the rules k..n of the table applied in order, those of skip left out
CheckSkipping(k, n, t, cs, skip) ==
    IF k > n THEN [text |-> t, corrections |-> cs]
    ELSE IF k \in skip THEN CheckSkipping(k + 1, n, t, cs, skip)
    ELSE LET r == TryRule(GRAMMAR_RULES[k], t, cs)
         IN  CheckSkipping(k + 1, n, r.text, r.corrections, skip)

\* C7: a rule whose match or substitution raises is skipped and nothing else:
\* text and corrections stay as they were, every later rule is still applied,
\* and check_grammar returns its pair.
C7_RaisedRuleSkipped ==
    pc["a"] \in {"loop", "done"} =>
        /\ visited["a"] = [i \in 1..(idx["a"] - 1) |-> i]
        /\ raised["a"] \subseteq 1..(idx["a"] - 1)
        /\ pc["a"] = "done" => idx["a"] = Len(GRAMMAR_RULES) + 1
        /\ [text |-> text["a"], corrections |-> corrections["a"]]
             = CheckSkipping(1, idx["a"] - 1, input["a"], <<>>, raised["a"])

C7_Witness ==
    /\ pc["a"] = "done"
    /\ input["a"] = "do he go"
    /\ raised["a"] = {2}
    /\ text["a"] = "does he go"
    /\ Categories(corrections["a"]) = <<"Auxiliary Verbs">>

\* C8: each rule is visited exactly once, in table order, on the text as the
\* earlier rules left it; the result is the sequential application of the
\* rules in table order.
C8_OnePassInOrder ==
    /\ pc["a"] \in {"loop", "done"} => visited["a"] = [i \in 1..(idx["a"] - 1) |-> i]
    /\ pc["a"] = "done" =>
           /\ visited["a"] = [i \in 1..Len(GRAMMAR_RULES) |-> i]
           /\ [text |-> text["a"], corrections |-> corrections["a"]]
                = CheckGrammar(input["a"])

C8_Witness ==
    /\ Returned
    /\ input["a"] = "do he go"
    /\ Matching(input["a"]) = {2, 5}
    /\ text["a"] = "does he gos"
    /\ Categories(corrections["a"]) = <<"Subject-Verb Agreement", "Auxiliary Verbs">>

\* C9: interleaved calls on the shared instance do not affect each other: each
\* returns what it returns alone, and the rule table stays as it was at start.
C9_CallsIndependent ==
    /\ rules = GRAMMAR_RULES
    /\ \A p \in Callers :
           pc[p] = "done" =>
               [text |-> text[p], corrections |-> corrections[p]]
                 = CheckGrammar(input[p])

C9_Witness ==
    /\ pc["a"] = "done"
    /\ input["a"] = "do it is go"
    /\ text["a"] = "does it is going"
    /\ pc["b"] = "loop"
    /\ idx["b"] = 3
    /\ input["b"] = "he go home"
    /\ text["b"] = "he gos home"

\* C10: the corrections list is non-empty exactly when the returned text
\* differs from the input.
C10_CorrectionsIffChanged ==
    pc["a"] = "done" => ((corrections["a"] # <<>>) <=> (text["a"] # input["a"]))

C10_Witness ==
    /\ Returned
    /\ input["a"] = "do he I goes"
    /\ text["a"] = "does he I go"
    /\ Len(text["a"]) = Len(input["a"])
    /\ Len(corrections["a"]) = 2

====
